---- MODULE Spec2Model ----
(***************************************************************************)
(* A model of collate/collate.py: the recursive expansion of a nested      *)
(* path description into a flat list of paths, its validation against the  *)
(* filesystem, the JSON loading with _pathize as object_hook, and the run  *)
(* of the command line tool (parse_cli).                                   *)
(*                                                                         *)
(* Python values are records of one shape, [t, s, segs, keys, items]:      *)
(*   t = "str"   a string, s its text                                      *)
(*   t = "int", "bool"  a JSON scalar that is no string                    *)
(*   t = "none"  Python's None                                             *)
(*   t = "path"  a pathlib.Path, segs its parts                            *)
(*   t = "list"  a list, items its elements                                *)
(*   t = "dict"  a dict, keys[i] -> items[i] in insertion order            *)
(* A path is the sequence of its parts; the anchor of an absolute path is  *)
(* the part "/".  A string that is built by the program (str(path), an     *)
(* error message) is the sequence of its pieces.                           *)
(***************************************************************************)
EXTENDS Integers, Sequences, FiniteSets, TLC

VARIABLES
  tree,         \* the JSON value given with --data or --file, as plain JSON
  base,         \* the path given with --context
  fs,           \* the paths that are regular files (what is_file answers)
  pc,           \* the position of the client, or of parse_cli
  rec,          \* what a first call of expand_path_rec gave
  rec2,         \* what a second call of expand_path_rec gave
  val,          \* what a call of expand_path_data gave
  touched,      \* how often the filesystem changed between the two calls
  data,         \* parse_cli: what load_data returned
  exc,          \* parse_cli: the exception that ended the run
  input_list,   \* parse_cli: what expand_path_data returned
  gs_calls,     \* the command lists given to subprocess.run
  exit_status,  \* the exit status of the process, -1 while it runs
  stdout        \* what the run printed

vars == <<tree, base, fs, pc, rec, rec2, val, touched,
          data, exc, input_list, gs_calls, exit_status, stdout>>

\* ------------------------------------------------------------ bounds
\* The largest number of nodes of a generated input tree.
MaxNodes == 4
\* How many times the filesystem changes between two calls of expand.
MaxTouch == 1

\* ------------------------------------------------------------ values
Str(s) == [t |-> "str", s |-> s, segs |-> <<>>, keys |-> <<>>, items |-> <<>>]
Num == [t |-> "int", s |-> "", segs |-> <<>>, keys |-> <<>>, items |-> <<>>]
Flag == [t |-> "bool", s |-> "", segs |-> <<>>, keys |-> <<>>, items |-> <<>>]
NoneValue == [t |-> "none", s |-> "", segs |-> <<>>, keys |-> <<>>, items |-> <<>>]
Path(p) == [t |-> "path", s |-> "", segs |-> p, keys |-> <<>>, items |-> <<>>]
List(xs) == [t |-> "list", s |-> "", segs |-> <<>>, keys |-> <<>>, items |-> xs]
Dict(ks, vs) == [t |-> "dict", s |-> "", segs |-> <<>>, keys |-> ks, items |-> vs]

\* type(v) as Python formats it in a message
ClassOf(v) ==
  CASE v.t = "str" -> "<class 'str'>"
    [] v.t = "int" -> "<class 'int'>"
    [] v.t = "bool" -> "<class 'bool'>"
    [] v.t = "none" -> "<class 'NoneType'>"
    [] v.t = "path" -> "<class 'pathlib.PosixPath'>"
    [] v.t = "list" -> "<class 'list'>"
    [] v.t = "dict" -> "<class 'dict'>"

\* type(v).__name__ as the interpreter quotes it in a TypeError
TypeNameOf(v) ==
  CASE v.t = "str" -> "'str'"
    [] v.t = "int" -> "'int'"
    [] v.t = "bool" -> "'bool'"
    [] v.t = "none" -> "'NoneType'"
    [] v.t = "path" -> "'PosixPath'"
    [] v.t = "list" -> "'list'"
    [] v.t = "dict" -> "'dict'"

\* ------------------------------------------------------------ results
\* The outcome of a call: a returned list of paths, or a raised exception
\* (its class and str(exc), the message, as a sequence of pieces).
Return(ps) == [ok |-> TRUE, paths |-> ps, cls |-> "", msg |-> <<>>]
Raise(c, m) == [ok |-> FALSE, paths |-> <<>>, cls |-> c, msg |-> m]
NoResult == [ok |-> FALSE, paths |-> <<>>, cls |-> "(not called)", msg |-> <<>>]

ExpectedMsg == "Expected str, dict or list, got "
MissingMsg == "Missing files: "
UnsupportedMsg == "unsupported operand type(s) for /: 'PosixPath' and "
LineSep == "\n\t"

\* ------------------------------------------------------------ pathlib
\* path_prefix/item: pathlib's / takes a str or another path.
CanJoin(item) == item.t \in {"str", "path"}
Join(prefix, item) ==
  IF item.t = "str" THEN Append(prefix, item.s) ELSE prefix \o item.segs

RECURSIVE JoinWith(_, _)
\* sep.join(strs), for strings that are sequences of pieces
JoinWith(strs, sep) ==
  IF strs = <<>> THEN <<>>
  ELSE IF Len(strs) = 1 THEN strs[1]
  ELSE strs[1] \o <<sep>> \o JoinWith(Tail(strs), sep)

\* str(path): "." for the empty path, the parts joined by "/" after the anchor
StrOf(p) ==
  IF p = <<>> THEN <<".">>
  ELSE IF Head(p) = "/"
    THEN <<"/">> \o JoinWith([i \in 1..(Len(p) - 1) |-> <<p[i + 1]>>], "/")
    ELSE JoinWith([i \in 1..Len(p) |-> <<p[i]>>], "/")

\* path.is_file(): the path names a regular file of the filesystem
is_file(p) == p \in fs

\* ------------------------------------------------------------ expand
RECURSIVE expand_path_rec(_, _)

\* ListItem, had it dropped the names that are no file while expanding
ListItem_OnlyFiles(item, path_prefix) ==
  IF item.t = "dict" THEN expand_path_rec(item, path_prefix)
  ELSE IF CanJoin(item)
    THEN IF is_file(Join(path_prefix, item))
         THEN Return(<<Join(path_prefix, item)>>) ELSE Return(<<>>)
  ELSE Raise("TypeError", <<UnsupportedMsg, TypeNameOf(item)>>)

\* One element of a list (lines 31-35): a dict is expanded under the same
\* prefix, anything else is joined to the prefix, which raises a TypeError
\* for what is neither a str nor a path.
ListItem(item, path_prefix) ==
  IF item.t = "dict" THEN expand_path_rec(item, path_prefix)
  ELSE IF CanJoin(item) THEN Return(<<Join(path_prefix, item)>>)
  ELSE Raise("TypeError", <<UnsupportedMsg, TypeNameOf(item)>>)

\* DictEntry, had it expanded the value under the unextended prefix
DictEntry_SamePrefix(k, v, path_prefix) == expand_path_rec(v, path_prefix)

\* One entry of a dict (line 26): the value expanded under prefix/key.
DictEntry(k, v, path_prefix) == expand_path_rec(v, Join(path_prefix, k))

RECURSIVE ExpandList(_, _, _)
\* The loop of lines 30-36 from element i on; the first exception ends it.
ExpandList(path_holder, path_prefix, i) ==
  IF i > Len(path_holder.items) THEN Return(<<>>)
  ELSE LET r == ListItem(path_holder.items[i], path_prefix)
       IN IF ~r.ok THEN r
          ELSE LET rest == ExpandList(path_holder, path_prefix, i + 1)
               IN IF ~rest.ok THEN rest ELSE Return(r.paths \o rest.paths)

RECURSIVE ExpandDict(_, _, _)
\* The comprehension of lines 25-28 from entry i on, flattened in order.
ExpandDict(path_holder, path_prefix, i) ==
  IF i > Len(path_holder.items) THEN Return(<<>>)
  ELSE LET r == DictEntry(path_holder.keys[i], path_holder.items[i], path_prefix)
       IN IF ~r.ok THEN r
          ELSE LET rest == ExpandDict(path_holder, path_prefix, i + 1)
               IN IF ~rest.ok THEN rest ELSE Return(r.paths \o rest.paths)

expand_path_rec(path_holder, path_prefix) ==
  IF path_holder.t = "dict" THEN ExpandDict(path_holder, path_prefix, 1)
  ELSE IF path_holder.t = "list" THEN ExpandList(path_holder, path_prefix, 1)
  ELSE Raise("Exception", <<ExpectedMsg, ClassOf(path_holder)>>)

\* Errors, had it stopped at the first path that is no regular file
Errors_FirstFailure(paths) ==
  LET bad == SelectSeq(paths, LAMBDA p : ~is_file(p))
  IN IF bad = <<>> THEN <<>> ELSE <<StrOf(bad[1])>>

\* errors of line 52: str(path) of every path that is no regular file
Errors(paths) ==
  LET bad == SelectSeq(paths, LAMBDA p : ~is_file(p))
  IN [i \in 1..Len(bad) |-> StrOf(bad[i])]

\* The message of lines 54-56.
MissingFilesMessage(errors) == <<MissingMsg, LineSep>> \o JoinWith(errors, LineSep)

\* expand_path_data, had the test of line 53 been inverted
expand_path_data_inverted(path_data, path_base) ==
  LET r == expand_path_rec(path_data, path_base)
  IN IF ~r.ok THEN r
     ELSE IF Errors(r.paths) = <<>>
       THEN Raise("Exception", MissingFilesMessage(Errors(r.paths)))
       ELSE Return(r.paths)

expand_path_data(path_data, path_base) ==
  LET r == expand_path_rec(path_data, path_base)
  IN IF ~r.ok THEN r
     ELSE IF Errors(r.paths) # <<>>
       THEN Raise("Exception", MissingFilesMessage(Errors(r.paths)))
       ELSE Return(r.paths)

\* ------------------------------------------------------------ inputs
\* File names of the generated trees ("a" is also a directory name, so that
\* a resolved path can name a directory), directory names, and the contexts:
\* Path('/root') and the default Path('.').
Names == {"x", "a"}
Keys == {"a", "b"}
Root == <<"/", "root">>
Bases == {Root, <<>>}

\* The sequences of n distinct directory names
KeySeqs(n) ==
  {ks \in [1..n -> Keys] : \A i, j \in 1..n : i # j => ks[i] # ks[j]}

\* Gen[n]: the JSON values of exactly n nodes (trees), and the sequences of
\* JSON values of n nodes in all (forests).  A JSON object has distinct keys.
Gen[n \in 0..MaxNodes] ==
  IF n = 0 THEN [trees |-> {}, forests |-> {<<>>}]
  ELSE
    LET leaves == IF n = 1 THEN {Str(s) : s \in Names} \cup {Num} ELSE {}
        lists == {List(f) : f \in Gen[n - 1].forests}
        dicts == UNION {{Dict([i \in 1..Len(f) |-> Str(ks[i])], f) : ks \in KeySeqs(Len(f))} :
                          f \in {g \in Gen[n - 1].forests : Len(g) <= Cardinality(Keys)}}
        trees == leaves \cup lists \cup dicts
        TreesOf(k) == IF k = n THEN trees ELSE Gen[k].trees
        forests == UNION {{<<t>> \o f : t \in TreesOf(k), f \in Gen[n - k].forests} :
                            k \in 1..n}
    IN [trees |-> trees, forests |-> forests]

\* The trees of the specification's examples, and trees like them
ExampleTrees ==
  { Dict(<<Str("a"), Str("b")>>, <<List(<<Str("x"), Str("y")>>), List(<<Str("z")>>)>>),
    Dict(<<Str("a")>>, <<Dict(<<Str("b")>>, <<List(<<Str("x")>>)>>)>>),
    List(<<Str("x"), Dict(<<Str("a")>>, <<List(<<Str("y")>>)>>)>>),
    Dict(<<Str("a"), Str("b")>>,
         <<List(<<Str("x"), Str("y"), Str("z")>>), List(<<Str("x"), Str("y")>>)>>),
    List(<<Str("x"), Flag>>),
    Dict(<<Str("a")>>, <<List(<<Str("x"), Dict(<<Str("b")>>, <<List(<<Str("y")>>)>>)>>)>>) }

Trees == UNION {Gen[n].trees : n \in 1..MaxNodes} \cup ExampleTrees

RECURSIVE Mentioned(_, _)
\* Every path a tree names: each string in it under the directory names above it
Mentioned(v, prefix) ==
  CASE v.t = "str" -> {Append(prefix, v.s)}
    [] v.t = "list" -> UNION {Mentioned(v.items[i], prefix) : i \in 1..Len(v.items)}
    [] v.t = "dict" ->
         UNION {Mentioned(v.items[i], Join(prefix, v.keys[i])) : i \in 1..Len(v.items)}
    [] OTHER -> {}

IsProperPrefix(p, q) == Len(p) < Len(q) /\ SubSeq(q, 1, Len(p)) = p

\* A set of regular files: no regular file lies under another one
Consistent(files) == \A p, q \in files : ~IsProperPrefix(p, q)

\* ------------------------------------------------------------ loading
\* pathlib.Path(key) of a dict key: a str becomes a one-part path, a path
\* stays what it is.
PathOf(key) == IF key.t = "str" THEN Path(<<key.s>>) ELSE key

RECURSIVE _pathize(_)
_pathize(in_data) ==
  IF in_data.t = "str" THEN Path(<<in_data.s>>)
  ELSE IF in_data.t = "list"
    THEN List([i \in 1..Len(in_data.items) |-> _pathize(in_data.items[i])])
  ELSE IF in_data.t = "dict"
    THEN Dict([i \in 1..Len(in_data.keys) |-> PathOf(in_data.keys[i])],
              [i \in 1..Len(in_data.items) |-> _pathize(in_data.items[i])])
  ELSE NoneValue

RECURSIVE json_loads(_)
\* json.loads(text, object_hook=_pathize): the hook is called on every
\* decoded object, the innermost first, and its result replaces the object.
json_loads(v) ==
  IF v.t = "dict"
    THEN _pathize(Dict(v.keys, [i \in 1..Len(v.items) |-> json_loads(v.items[i])]))
  ELSE IF v.t = "list"
    THEN List([i \in 1..Len(v.items) |-> json_loads(v.items[i])])
  ELSE v

\* ------------------------------------------------------------ the tool
\* The namespace parse_args returns: the attributes prepare_parser declares.
args ==
  [papersize |-> "a4", context |-> base, data |-> tree,
   data_file |-> NoneValue, output |-> "collate.out"]

HasAttr(name) == name \in DOMAIN args

load_data == json_loads(args.data)

\* command_list of execute, each argument a sequence of pieces
execute(input_files, output_file, papersize) ==
  LET size == IF papersize # NoneValue THEN << <<"-sPAPERSIZE=", papersize>> >> ELSE <<>>
  IN << <<"gs">>, <<"-dBATCH">>, <<"-dNOPAUSE">>, <<"-q">>, <<"-sDEVICE=pdfwrite">>,
        <<"-dAutoRotatePages=/None">>, <<"-sOutputFile=", output_file>>,
        <<"-sPAPERSIZE=", size>> >>
     \o [i \in 1..Len(input_files) |-> StrOf(input_files[i])]

AttributeErrorMsg == "'Namespace' object has no attribute "

\* ------------------------------------------------------------ states
\* The inputs of a run: the JSON value, the context and the regular files
\* among the paths the value names.
InitInputs ==
  /\ tree \in Trees
  /\ base \in Bases
  /\ fs \in {files \in SUBSET Mentioned(tree, base) : Consistent(files)}
  /\ rec = NoResult /\ rec2 = NoResult /\ val = NoResult /\ touched = 0
  /\ data = NoneValue /\ exc = NoResult /\ input_list = <<>>
  /\ gs_calls = <<>> /\ exit_status = -1 /\ stdout = <<>>

cli_vars == <<data, exc, input_list, gs_calls, exit_status, stdout>>
lib_vars == <<rec, rec2, val, touched>>

\* ---- a client of the library: expand, expand again, validate
\* A first call of expand_path_rec(tree, base).
ExpandFirst ==
  /\ pc = "call"
  /\ rec' = expand_path_rec(tree, base)
  /\ pc' = "expanded"
  /\ UNCHANGED <<tree, base, fs, rec2, val, touched, cli_vars>>

\* Between the calls a file the tree names is created or removed.
TouchFs ==
  /\ pc = "expanded"
  /\ touched < MaxTouch
  /\ \E p \in Mentioned(tree, base) :
       /\ fs' = IF p \in fs THEN fs \ {p} ELSE fs \cup {p}
       /\ Consistent(fs')
  /\ touched' = touched + 1
  /\ UNCHANGED <<tree, base, pc, rec, rec2, val, cli_vars>>

\* A second call of expand_path_rec(tree, base).
ExpandAgain ==
  /\ pc = "expanded"
  /\ rec2' = expand_path_rec(tree, base)
  /\ pc' = "expanded_again"
  /\ UNCHANGED <<tree, base, fs, rec, val, touched, cli_vars>>

\* A call of expand_path_data(tree, base): expansion, then validation.
Validate ==
  /\ pc = "expanded_again"
  /\ val' = expand_path_data(tree, base)
  /\ pc' = "done"
  /\ UNCHANGED <<tree, base, fs, rec, rec2, touched, cli_vars>>

Init == InitInputs /\ pc = "call"

Next == ExpandFirst \/ TouchFs \/ ExpandAgain \/ Validate

Spec == Init /\ [][Next]_vars

\* ---- parse_cli
\* data = load_data(args), line 142
LoadData ==
  /\ pc = "start"
  /\ data' = load_data
  /\ pc' = "loaded"
  /\ UNCHANGED <<tree, base, fs, lib_vars, exc, input_list, gs_calls, exit_status, stdout>>

\* ExpandInput, had the handler exited with status 0
ExpandInput_ExitZero ==
  /\ pc = "loaded"
  /\ LET r == expand_path_data(data, args.context)
     IN IF r.ok
        THEN /\ input_list' = r.paths
             /\ pc' = "execute"
             /\ UNCHANGED <<exc, exit_status, stdout>>
        ELSE /\ exc' = r
             /\ stdout' = r.msg
             /\ exit_status' = 0
             /\ pc' = "exited"
             /\ UNCHANGED input_list
  /\ UNCHANGED <<tree, base, fs, lib_vars, data, gs_calls>>

\* The try block of lines 144-148: on an exception its message is printed
\* and the process exits with status 1.
ExpandInput ==
  /\ pc = "loaded"
  /\ LET r == expand_path_data(data, args.context)
     IN IF r.ok
        THEN /\ input_list' = r.paths
             /\ pc' = "execute"
             /\ UNCHANGED <<exc, exit_status, stdout>>
        ELSE /\ exc' = r
             /\ stdout' = r.msg
             /\ exit_status' = 1
             /\ pc' = "exited"
             /\ UNCHANGED input_list
  /\ UNCHANGED <<tree, base, fs, lib_vars, data, gs_calls>>

\* Line 150: execute(args.command, input_list, args.output).  The arguments
\* are evaluated first; an attribute the namespace lacks raises an
\* AttributeError that nothing catches, and the interpreter exits with 1.
Execute ==
  /\ pc = "execute"
  /\ IF HasAttr("command")
     THEN /\ gs_calls' = Append(gs_calls, execute(args.command, input_list, args.output))
          /\ exit_status' = 0
          /\ UNCHANGED exc
     ELSE /\ exc' = Raise("AttributeError", <<AttributeErrorMsg, "'command'">>)
          /\ exit_status' = 1
          /\ UNCHANGED gs_calls
  /\ pc' = "exited"
  /\ UNCHANGED <<tree, base, fs, lib_vars, data, input_list, stdout>>

InitCli == InitInputs /\ pc = "start"

NextCli == LoadData \/ ExpandInput \/ Execute

SpecCli == InitCli /\ [][NextCli]_vars

\* ------------------------------------------------------------ properties
\* What the properties below speak of.

RECURSIVE Flatten(_)
\* The concatenation of a sequence of sequences
Flatten(seqs) == IF seqs = <<>> THEN <<>> ELSE Head(seqs) \o Flatten(Tail(seqs))

RECURSIVE SplitOn(_, _)
\* The lines of a text: its pieces between the occurrences of sep
SplitOn(text, sep) ==
  IF text = <<>> THEN << <<>> >>
  ELSE LET rest == SplitOn(Tail(text), sep)
       IN IF Head(text) = sep THEN << <<>> >> \o rest
          ELSE << <<Head(text)>> \o Head(rest) >> \o Tail(rest)

\* The error kinds: the exception of line 37 and the exception of line 54
InvalidShape(r) ==
  ~r.ok /\ r.cls = "Exception" /\ Len(r.msg) = 2 /\ r.msg[1] = ExpectedMsg
MissingFiles(r) ==
  ~r.ok /\ r.cls = "Exception" /\ Len(r.msg) > 2 /\ r.msg[1] = MissingMsg
\* The paths a MissingFiles error lists, one per line after the heading
Reported(r) == Tail(SplitOn(r.msg, LineSep))

\* The positions of the paths that are no regular file, and the j-th of them
Failing(paths) == {i \in 1..Len(paths) : paths[i] \notin fs}
NthFailing(paths, j) ==
  CHOOSE i \in Failing(paths) : Cardinality({k \in Failing(paths) : k < i}) = j - 1

OrderExample ==
  Dict(<<Str("a"), Str("b")>>, <<List(<<Str("x"), Str("y")>>), List(<<Str("z")>>)>>)
NestedExample == Dict(<<Str("a")>>, <<Dict(<<Str("b")>>, <<List(<<Str("x")>>)>>)>>)
MixedExample == List(<<Str("x"), Dict(<<Str("a")>>, <<List(<<Str("y")>>)>>)>>)

\* The expansions of the entries of a Branch, each under the prefix extended
\* by its key as one more segment
SubExpansions(branch, prefix) ==
  [i \in 1..Len(branch.items) |->
     expand_path_rec(branch.items[i], Append(prefix, branch.keys[i].s))]

\* C1: the expansion of a Branch is the concatenation, in key insertion
\* order, of the expansions of its subtrees, each under the prefix extended
\* by its key as exactly one more segment (and fails when one of them fails);
\* the two examples of the specification expand as it says.
C1_BranchConcatenation ==
  pc # "call" =>
    /\ tree.t = "dict" =>
         LET subs == SubExpansions(tree, base)
         IN IF \A i \in 1..Len(subs) : subs[i].ok
            THEN /\ rec.ok
                 /\ rec.paths = Flatten([i \in 1..Len(subs) |-> subs[i].paths])
                 /\ \A i \in 1..Len(subs) : \A j \in 1..Len(subs[i].paths) :
                      LET p == subs[i].paths[j]
                      IN /\ Len(p) > Len(base) + 1
                         /\ SubSeq(p, 1, Len(base) + 1) = Append(base, tree.keys[i].s)
            ELSE ~rec.ok
    /\ (tree = NestedExample /\ base = Root) =>
         rec = Return(<< <<"/", "root", "a", "b", "x">> >>)
    /\ (tree = OrderExample /\ base = Root) =>
         rec = Return(<< <<"/", "root", "a", "x">>, <<"/", "root", "a", "y">>,
                         <<"/", "root", "b", "z">> >>)

C1_Witness ==
  /\ pc = "done" /\ tree = OrderExample /\ base = Root
  /\ rec.ok /\ Len(rec.paths) = 3

\* C3: when a resolved path is absent or no regular file, validation fails
\* with MissingFiles, and the error lists exactly the failing paths, each
\* occurrence once, in the order of the input sequence.
C3_MissingFilesListsAllFailures ==
  (pc = "done" /\ rec2.ok /\ Failing(rec2.paths) # {}) =>
    /\ MissingFiles(val)
    /\ Len(Reported(val)) = Cardinality(Failing(rec2.paths))
    /\ \A j \in 1..Len(Reported(val)) :
         Reported(val)[j] = StrOf(rec2.paths[NthFailing(rec2.paths, j)])

C3_Witness ==
  /\ pc = "done" /\ rec2.ok /\ Len(rec2.paths) = 5
  /\ Cardinality(Failing(rec2.paths)) = 2
  /\ MissingFiles(val) /\ Len(Reported(val)) = 2

RECURSIVE Offenders(_)
Offenders(v) ==
  CASE v.t \in {"list", "dict"} -> UNION {Offenders(v.items[i]) : i \in 1..Len(v.items)}
    [] v.t = "str" -> {}
    [] OTHER -> {v}

\* A tree in which every string is an element of a list and no list is an
\* element of a list
RECURSIVE LeavesInGroups(_)
LeavesInGroups(v) ==
  CASE v.t = "dict" ->
         \A i \in 1..Len(v.items) : v.items[i].t # "str" /\ LeavesInGroups(v.items[i])
    [] v.t = "list" ->
         \A i \in 1..Len(v.items) :
           v.items[i].t = "str" \/ (v.items[i].t # "list" /\ LeavesInGroups(v.items[i]))
    [] OTHER -> TRUE

\* C2: the expansion of a Group takes its elements in order: a Branch or a
\* Group is expanded under the unchanged prefix and its paths spliced in, a
\* Leaf gives the one path prefix/leaf.
C2_GroupSplice ==
  (pc # "call" /\ tree.t = "list"
     /\ \A i \in 1..Len(tree.items) : tree.items[i].t \in {"dict", "list", "str"}) =>
    LET parts == [i \in 1..Len(tree.items) |->
                    IF tree.items[i].t = "str"
                    THEN Return(<<Append(base, tree.items[i].s)>>)
                    ELSE expand_path_rec(tree.items[i], base)]
    IN (\A i \in 1..Len(parts) : parts[i].ok) =>
         /\ rec.ok
         /\ rec.paths = Flatten([i \in 1..Len(parts) |-> parts[i].paths])

\* C4: a tree that holds a value that is neither a mapping, a sequence nor a
\* string fails with InvalidShape, and the error names the type of such a
\* value, wherever the value is.
C4_InvalidShapeEverywhere ==
  (pc # "call" /\ Offenders(tree) # {} /\ LeavesInGroups(tree)) =>
    /\ InvalidShape(rec)
    /\ rec.msg[2] \in {ClassOf(v) : v \in Offenders(tree)}

\* C8: a bare Leaf string given as the tree, or found as the value under a
\* Branch key, expands to the single path prefix/leaf.
C8_BareLeafAccepted ==
  pc # "call" =>
    /\ tree.t = "str" => rec = Return(<<Append(base, tree.s)>>)
    /\ (tree.t = "dict" /\ \A i \in 1..Len(tree.items) : tree.items[i].t = "str") =>
         rec = Return([i \in 1..Len(tree.items) |->
                         Append(Append(base, tree.keys[i].s), tree.items[i].s)])

\* ---- properties of a run of the tool

\* C5: a run on a well-formed tree whose paths (one at least) are all regular
\* files invokes the external command exactly once, with the input paths in
\* the order expand and validate produced.
C5_CommandGetsPathsInOrder ==
  (pc = "exited" /\ expand_path_data(tree, base).ok /\ expand_path_data(data, base).ok
     /\ input_list # <<>>) =>
    /\ Len(gs_calls) = 1
    /\ LET cmd == gs_calls[1]
           n == Len(input_list)
       IN /\ Len(cmd) >= n
          /\ SubSeq(cmd, Len(cmd) - n + 1, Len(cmd)) = [i \in 1..n |-> StrOf(input_list[i])]

\* C6: a run whose expansion or validation fails never invokes the external
\* command and ends at once with a non-zero exit status, whatever the failure.
C6_FailureAbortsBeforeCommand ==
  (pc \notin {"start", "loaded"} /\ ~expand_path_data(data, base).ok) =>
    /\ pc = "exited"
    /\ exit_status # 0 /\ exit_status # -1
    /\ gs_calls = <<>>
    /\ exc = expand_path_data(data, base)

C6_Witness ==
  /\ pc = "exited" /\ exc.cls = "TypeError" /\ tree.t = "list"
  /\ \E i \in 1..Len(tree.items) : tree.items[i].t = "int"
  /\ exit_status = 1 /\ gs_calls = <<>>

\* The values of a tree that are None
RECURSIVE Nones(_)
Nones(v) ==
  CASE v.t \in {"list", "dict"} -> UNION {Nones(v.items[i]) : i \in 1..Len(v.items)}
    [] v.t = "none" -> {v}
    [] OTHER -> {}

\* C10: the loaded data expands to the path sequence the plain JSON value
\* expands to, and loading turns no leaf of a tree of objects, arrays and
\* strings into a value that is no path.
C10_LoadingPreservesTree ==
  pc # "start" =>
    /\ expand_path_rec(tree, base).ok => expand_path_rec(data, base) = expand_path_rec(tree, base)
    /\ Offenders(tree) = {} => Nones(data) = {}

====
